---- MODULE Spec2Model ----
(***************************************************************************)
(* HTML guideline validator: rule registry, validation orchestrator        *)
(* (validate_file / validate_files), per-rule aggregation                  *)
(* (group_issues_by_rule) and the structured (JSON) reporter.              *)
(*                                                                         *)
(* A rule function is a callable registered under a rule id; what it       *)
(* returns on a parsed document is a property of the document, so a        *)
(* document is modelled by the outcome each callable has on it: either a   *)
(* sequence of issues or a raised exception.                               *)
(***************************************************************************)
EXTENDS Integers, Sequences, FiniteSets, TLC

\* ---------------------------------------------------------------- bounds
MaxRules == 2
MaxPaths == 2

\* ------------------------------------------------------------ input sets
Paths == {"p1", "p2"}
RuleIds == {"basic-structure", "required-meta-tags"}
Funcs == {"validate_basic_structure", "validate_meta_tags"}

\* The description a rule function is decorated with.
DescriptionOf(func) ==
    IF func = "validate_basic_structure" THEN "Check DOCTYPE and html tag"
    ELSE "Check required meta tags"

\* line = None
NoLine == 0

\* The "rule" literal a rule function writes into the issues it builds.
IssueRule(func) ==
    IF func = "validate_basic_structure" THEN "basic-structure"
    ELSE "required-meta-tags"

Issue(rule, severity, message, line) ==
    [rule |-> rule, severity |-> severity, message |-> message, line |-> line]

\* What one call rule_func(soup, file_path, raw_lines) can do: return a list
\* of issues (none, one, an error followed by a warning) or raise.
Returns(issues) == [raised |-> FALSE, issues |-> issues]
Raises == [raised |-> TRUE, issues |-> <<>>]

RuleOutcomes(func) ==
    { Returns(<<>>),
      Returns(<<Issue(IssueRule(func), "error", "m1", NoLine)>>),
      Returns(<<Issue(IssueRule(func), "error", "m1", NoLine),
                Issue(IssueRule(func), "warning", "m2", 2)>>),
      Raises }

\* What is stored under a path: nothing, bytes that are not UTF-8, something
\* whose reading or parsing raises another exception, or a document
\* html.parser accepts.
FileContents ==
    { [kind |-> "missing"], [kind |-> "undecodable"], [kind |-> "unparsable"] }
    \cup { [kind |-> "doc", out |-> o] :
             o \in { g \in [Funcs -> UNION {RuleOutcomes(f) : f \in Funcs}] :
                       \A f \in Funcs : g[f] \in RuleOutcomes(f) } }

PathLists == UNION { [1..n -> Paths] : n \in 0..MaxPaths }

Range(s) == { s[i] : i \in DOMAIN s }

VARIABLES
    validation_rules,   \* rules._validation_rules
    file_paths,         \* argument of validate_files
    fs,                 \* the files on disk, by path
    results,            \* validate_files: results
    result,             \* validate_file: result
    ri,                 \* validate_file: position in get_all_rules()
    pc,                 \* "init", "files", "rules", "report", "done"
    output_format,      \* which reporter ran: "none", "json", "html", "terminal"
    json_out,           \* format_json_output: output
    grouped,            \* group_issues_by_rule: grouped
    now,                \* datetime.now(), as the number of earlier runs
    first_json,         \* the structured output of the first run
    call,               \* a function called on its own, with its arguments
    returned,           \* what that call returned
    console_out,        \* format_console_output: output and its counters
    html_summary        \* format_html_output: total_errors, total_warnings

\* the variables the validation run leaves alone
aux == <<now, first_json, call, returned, console_out, html_summary>>

vars == <<validation_rules, file_paths, fs, results, result, ri, pc,
          output_format, json_out, grouped, now, first_json, call, returned,
          console_out, html_summary>>

NoCall == [fn |-> "none"]

NoResult == [path |-> "", status |-> "none", issues |-> <<>>]
NoJson == [summary |-> [total_files |-> 0, passed |-> 0, failed |-> 0,
                        total_errors |-> 0, total_warnings |-> 0],
           files |-> <<>>]
NoConsole == [output |-> <<>>, passed_count |-> 0, failed_count |-> 0,
              total_errors |-> 0, total_warnings |-> 0]

\* ------------------------------------------------------- rules/__init__.py
Rule(rule_id, description, func) ==
    [rule_id |-> rule_id, description |-> description, func |-> func]

get_all_rules == validation_rules

\* ------------------------------------------------------------- validate.py
\* variant: the new issues are put in front of those already collected
ExtendIssuesFront(issues, new) == new \o issues

\* result["issues"].extend(issues)
ExtendIssues(issues, new) == issues \o new

\* variant: a single issue is not enough to fail the file
DetermineStatusMany(issues) == IF Len(issues) > 1 THEN "failed" ELSE "passed"

\* if result["issues"]: result["status"] = "failed"
DetermineStatus(issues) == IF issues # <<>> THEN "failed" ELSE "passed"

\* variant: the newest result is put first
InsertResultFirst(rs, r) == <<r>> \o rs

\* results.append(result)
AppendResult(rs, r) == Append(rs, r)

ErrorResult(r, kind, detail) ==
    [path |-> r.path, status |-> "error", issues |-> r.issues,
     error |-> <<kind, detail>>]

NewResult(file_path) == [path |-> file_path, status |-> "passed", issues |-> <<>>]

\* ------------------------------------------------ reporters/json_reporter.py
CountSeverity(issues, severity) ==
    Cardinality({ i \in DOMAIN issues : issues[i].severity = severity })

CountStatus(rs, status) ==
    Cardinality({ i \in DOMAIN rs : rs[i].status = status })

UnknownError == <<"Unknown error", "">>

\* result.get("issues", []), result.get("error", "Unknown error")
GetIssues(r) == IF "issues" \in DOMAIN r THEN r.issues ELSE <<>>
GetError(r) == IF "error" \in DOMAIN r THEN r.error ELSE UnknownError

\* variant: only failed files are listed
JsonIncludedFailedOnly(r) == r.status = "failed"

\* if result["status"] in ["failed", "error"]
JsonIncluded(r) == r.status \in {"failed", "error"}

JsonFileData(r) ==
    IF r.status = "error"
    THEN [path |-> r.path, status |-> r.status, error |-> GetError(r)]
    ELSE [path |-> r.path, status |-> r.status, issues |-> GetIssues(r)]

\* the "for result in results" loop, over the first n results
RECURSIVE JsonLoop(_, _)
JsonLoop(rs, n) ==
    IF n = 0
    THEN [files |-> <<>>, total_errors |-> 0, total_warnings |-> 0]
    ELSE LET acc == JsonLoop(rs, n - 1)
             r == rs[n]
         IN IF JsonIncluded(r)
            THEN [files |-> Append(acc.files, JsonFileData(r)),
                  total_errors |-> acc.total_errors
                                     + CountSeverity(GetIssues(r), "error"),
                  total_warnings |-> acc.total_warnings
                                     + CountSeverity(GetIssues(r), "warning")]
            ELSE acc

\* variant: the output carries the time it was generated at, as the HTML
\* report does
format_json_output_stamped(rs) ==
    LET total_files == Len(rs)
        passed == CountStatus(rs, "passed")
        failed == total_files - passed
        acc == JsonLoop(rs, Len(rs))
    IN [summary |-> [total_files |-> total_files,
                     passed |-> passed,
                     failed |-> failed,
                     total_errors |-> acc.total_errors,
                     total_warnings |-> acc.total_warnings],
        files |-> acc.files,
        generated |-> now]

format_json_output(rs) ==
    LET total_files == Len(rs)
        passed == CountStatus(rs, "passed")
        failed == total_files - passed
        acc == JsonLoop(rs, Len(rs))
    IN [summary |-> [total_files |-> total_files,
                     passed |-> passed,
                     failed |-> failed,
                     total_errors |-> acc.total_errors,
                     total_warnings |-> acc.total_warnings],
        files |-> acc.files]

\* ------------------------------------------------ reporters/html_reporter.py
RuleIdsOf(all_rules) == { all_rules[i].rule_id : i \in DOMAIN all_rules }

\* variant: only the rules some file has an issue for get an aggregate
InitGroupedLazy(rs, all_rules) ==
    [rule_id \in { id \in RuleIdsOf(all_rules) :
                      \E i \in DOMAIN rs : \E k \in DOMAIN rs[i].issues :
                          rs[i].issues[k].rule = id } |->
        LET last == CHOOSE i \in DOMAIN all_rules :
                       /\ all_rules[i].rule_id = rule_id
                       /\ \A j \in DOMAIN all_rules :
                             all_rules[j].rule_id = rule_id => j <= i
        IN [description |-> all_rules[last].description,
            total_files |-> Len(rs),
            passed_files |-> 0,
            failed_files |-> 0,
            failures |-> <<>>]]

\* grouped[rule_id] = {...} for every rule of all_rules; a later rule with the
\* same id overwrites the entry of an earlier one
InitGrouped(rs, all_rules) ==
    [rule_id \in RuleIdsOf(all_rules) |->
        LET last == CHOOSE i \in DOMAIN all_rules :
                       /\ all_rules[i].rule_id = rule_id
                       /\ \A j \in DOMAIN all_rules :
                             all_rules[j].rule_id = rule_id => j <= i
        IN [description |-> all_rules[last].description,
            total_files |-> Len(rs),
            passed_files |-> 0,
            failed_files |-> 0,
            failures |-> <<>>]]

InitFilesByRule(all_rules) == [rule_id \in RuleIdsOf(all_rules) |-> {}]

\* variant: every result that did not pass is correlated with the rules
IsNotPassedResult(r) == r.status # "passed"

\* if result["status"] == "failed"
IsFailedResult(r) == r.status = "failed"

\* variant: one group per issue instead of one per rule
FileIssuesOneByOne(issues) ==
    [k \in DOMAIN issues |-> [rule_id |-> issues[k].rule, issues |-> <<issues[k]>>]]

\* file_issues_by_rule: the issues of one file keyed by issue["rule"], the
\* keys in order of first occurrence
RECURSIVE FileIssuesByRule(_)
FileIssuesByRule(issues) ==
    IF issues = <<>> THEN <<>>
    ELSE LET n == Len(issues)
             acc == FileIssuesByRule(SubSeq(issues, 1, n - 1))
             issue == issues[n]
             at == { k \in DOMAIN acc : acc[k].rule_id = issue.rule }
         IN IF at = {}
            THEN Append(acc, [rule_id |-> issue.rule, issues |-> <<issue>>])
            ELSE [acc EXCEPT ![CHOOSE k \in at : TRUE].issues = Append(@, issue)]

\* for rule_id, rule_issues in file_issues_by_rule.items(): if rule_id in grouped
RECURSIVE AddFailures(_, _, _, _)
AddFailures(g, fbr, path, by_rule) ==
    IF by_rule = <<>> THEN [grouped |-> g, files_by_rule |-> fbr]
    ELSE LET e == Head(by_rule)
         IN IF e.rule_id \in DOMAIN g
            THEN AddFailures(
                   [g EXCEPT ![e.rule_id].failures =
                        Append(@, [file_path |-> path, issues |-> e.issues])],
                   [fbr EXCEPT ![e.rule_id] = @ \cup {path}],
                   path, Tail(by_rule))
            ELSE AddFailures(g, fbr, path, Tail(by_rule))

\* the "for result in results" loop, over the first n results
RECURSIVE GroupLoop(_, _, _)
GroupLoop(rs, all_rules, n) ==
    IF n = 0
    THEN [grouped |-> InitGrouped(rs, all_rules),
          files_by_rule |-> InitFilesByRule(all_rules)]
    ELSE LET acc == GroupLoop(rs, all_rules, n - 1)
             r == rs[n]
         IN IF IsFailedResult(r)
            THEN AddFailures(acc.grouped, acc.files_by_rule, r.path,
                             FileIssuesByRule(GetIssues(r)))
            ELSE acc

\* variant: failed_files counts the failures entries, passed_files the paths
RuleCountsByEntries(g, paths) ==
    [g EXCEPT !.failed_files = Len(g.failures),
              !.passed_files = g.total_files - Cardinality(paths)]

\* failed_count = len(files_by_rule[rule_id]) and the two assignments after it
RuleCounts(g, paths) ==
    LET failed_count == Cardinality(paths)
    IN [g EXCEPT !.failed_files = failed_count,
                 !.passed_files = g.total_files - failed_count]

group_issues_by_rule(rs, all_rules) ==
    LET acc == GroupLoop(rs, all_rules, Len(rs))
    IN [rule_id \in DOMAIN acc.grouped |->
          RuleCounts(acc.grouped[rule_id], acc.files_by_rule[rule_id])]

\* sum(... for i in issues if i["severity"] == severity) over the failed results
RECURSIVE HtmlTotal(_, _, _)
HtmlTotal(rs, n, severity) ==
    IF n = 0 THEN 0
    ELSE HtmlTotal(rs, n - 1, severity)
         + (IF rs[n].status = "failed"
            THEN CountSeverity(GetIssues(rs[n]), severity) ELSE 0)

\* --------------------------------------------------- reporters/terminal.py
\* The output is kept as the list of its lines, without the colours and
\* without the opening line that names the base path.
\* what is appended to output for one result: the line with the path, then
\* the line that it passed, the error line, or one line for each issue, then
\* the empty line
ConsoleFileLines(r) ==
    IF r.status = "passed"
    THEN <<[kind |-> "file", passed |-> TRUE, path |-> r.path],
           [kind |-> "passed"], [kind |-> "empty"]>>
    ELSE IF r.status = "error"
    THEN <<[kind |-> "file", passed |-> FALSE, path |-> r.path],
           [kind |-> "error", error_msg |-> GetError(r)], [kind |-> "empty"]>>
    ELSE <<[kind |-> "file", passed |-> FALSE, path |-> r.path]>>
         \o [k \in DOMAIN GetIssues(r) |->
               LET issue == GetIssues(r)[k]
               IN [kind |-> "issue", severity |-> issue.severity,
                   line |-> issue.line, message |-> issue.message,
                   rule |-> issue.rule]]
         \o <<[kind |-> "empty"]>>

\* the "for result in results" loop, over the first n results
RECURSIVE ConsoleLoop(_, _)
ConsoleLoop(rs, n) ==
    IF n = 0 THEN NoConsole
    ELSE LET acc == ConsoleLoop(rs, n - 1)
             r == rs[n]
             issues == GetIssues(r)
         IN [output |-> acc.output \o ConsoleFileLines(r),
             passed_count |-> acc.passed_count
                                + (IF r.status = "passed" THEN 1 ELSE 0),
             failed_count |-> acc.failed_count
                                + (IF r.status = "passed" THEN 0 ELSE 1),
             total_errors |-> acc.total_errors + CountSeverity(issues, "error"),
             total_warnings |-> acc.total_warnings
                                  + CountSeverity(issues, "warning")]

\* the lines of the files, then the summary line made of the four counters
format_console_output(rs) ==
    LET acc == ConsoleLoop(rs, Len(rs))
    IN [acc EXCEPT !.output =
           Append(@, [kind |-> "summary", passed |-> acc.passed_count,
                      failed |-> acc.failed_count, errors |-> acc.total_errors,
                      warnings |-> acc.total_warnings])]

\* ------------------------------------------------- the reporters' arguments
\* variant: the results are sorted in place, the ones that did not pass first
ArgumentsAfterSorted(rs, all_rules) ==
    [results |-> SelectSeq(rs, LAMBDA r : r.status # "passed")
                 \o SelectSeq(rs, LAMBDA r : r.status = "passed"),
     all_rules |-> all_rules]

\* The list objects results and all_rules after a reporter returns: the
\* reporters iterate over them and read keys (result["status"],
\* result["path"], result.get("issues", []), issue["rule"], ...); what they
\* append to, add to or assign into are their own new lists, sets and dicts.
ArgumentsAfter(rs, all_rules) == [results |-> rs, all_rules |-> all_rules]

Init ==
    /\ validation_rules = <<>>
    /\ file_paths \in PathLists
    /\ fs \in [Paths -> FileContents]
    /\ \A p \in Paths \ Range(file_paths) : fs[p] = [kind |-> "missing"]
    /\ results = <<>>
    /\ result = NoResult
    /\ ri = 0
    /\ pc = "init"
    /\ output_format = "none"
    /\ json_out = NoJson
    /\ grouped = <<>>
    /\ now = 0
    /\ first_json = NoJson
    /\ call = NoCall
    /\ returned = NoCall
    /\ console_out = NoConsole
    /\ html_summary = [total_errors |-> 0, total_warnings |-> 0]

\* @validator_rule(rule_id, description) applied to func, at import time
Register ==
    /\ pc = "init"
    /\ Len(validation_rules) < MaxRules
    /\ \E rule_id \in RuleIds, func \in Funcs :
         validation_rules' = Append(validation_rules,
                                    Rule(rule_id, DescriptionOf(func), func))
    /\ UNCHANGED aux
    /\ UNCHANGED <<file_paths, fs, results, result, ri, pc, output_format,
                   json_out, grouped>>

\* main calls validate_files(html_files): results = []
StartValidation ==
    /\ pc = "init"
    /\ pc' = "files"
    /\ results' = <<>>
    /\ UNCHANGED aux
    /\ UNCHANGED <<validation_rules, file_paths, fs, result, ri, output_format,
                   json_out, grouped>>

NextPath == file_paths[Len(results) + 1]

\* validate_file: open() raises FileNotFoundError
ReadMissing ==
    /\ pc = "files"
    /\ Len(results) < Len(file_paths)
    /\ fs[NextPath].kind = "missing"
    /\ results' = AppendResult(results,
                     ErrorResult(NewResult(NextPath), "File not found", NextPath))
    /\ UNCHANGED aux
    /\ UNCHANGED <<validation_rules, file_paths, fs, result, ri, pc,
                   output_format, json_out, grouped>>

\* validate_file: f.read() raises UnicodeDecodeError
ReadUndecodable ==
    /\ pc = "files"
    /\ Len(results) < Len(file_paths)
    /\ fs[NextPath].kind = "undecodable"
    /\ results' = AppendResult(results,
                     ErrorResult(NewResult(NextPath), "Encoding error", NextPath))
    /\ UNCHANGED aux
    /\ UNCHANGED <<validation_rules, file_paths, fs, result, ri, pc,
                   output_format, json_out, grouped>>

\* validate_file: open(), f.read() or BeautifulSoup() raises another exception
ReadUnparsable ==
    /\ pc = "files"
    /\ Len(results) < Len(file_paths)
    /\ fs[NextPath].kind = "unparsable"
    /\ results' = AppendResult(results,
                     ErrorResult(NewResult(NextPath), "Parsing error", NextPath))
    /\ UNCHANGED aux
    /\ UNCHANGED <<validation_rules, file_paths, fs, result, ri, pc,
                   output_format, json_out, grouped>>

\* validate_file: the file is read and parsed, the rules loop starts
ReadParsed ==
    /\ pc = "files"
    /\ Len(results) < Len(file_paths)
    /\ fs[NextPath].kind = "doc"
    /\ result' = NewResult(NextPath)
    /\ ri' = 1
    /\ pc' = "rules"
    /\ UNCHANGED aux
    /\ UNCHANGED <<validation_rules, file_paths, fs, results, output_format,
                   json_out, grouped>>

RuleOutcome == fs[result.path].out[get_all_rules[ri].func]

\* one iteration of "for rule_id, description, rule_func in get_all_rules()"
\* in which rule_func returns
ApplyRule ==
    /\ pc = "rules"
    /\ ri <= Len(get_all_rules)
    /\ ~RuleOutcome.raised
    /\ result' = [result EXCEPT !.issues = ExtendIssues(@, RuleOutcome.issues)]
    /\ ri' = ri + 1
    /\ UNCHANGED aux
    /\ UNCHANGED <<validation_rules, file_paths, fs, results, pc, output_format,
                   json_out, grouped>>

\* the iteration in which rule_func raises: "except Exception as e"
RuleRaises ==
    /\ pc = "rules"
    /\ ri <= Len(get_all_rules)
    /\ RuleOutcome.raised
    /\ results' = AppendResult(results,
                     ErrorResult(result, "Parsing error", get_all_rules[ri].func))
    /\ result' = NoResult
    /\ ri' = 0
    /\ pc' = "files"
    /\ UNCHANGED aux
    /\ UNCHANGED <<validation_rules, file_paths, fs, output_format, json_out,
                   grouped>>

\* the loop is over: "if result['issues']: status = failed", return result
FinishFile ==
    /\ pc = "rules"
    /\ ri > Len(get_all_rules)
    /\ results' = AppendResult(results,
                     [result EXCEPT !.status = DetermineStatus(result.issues)])
    /\ result' = NoResult
    /\ ri' = 0
    /\ pc' = "files"
    /\ UNCHANGED aux
    /\ UNCHANGED <<validation_rules, file_paths, fs, output_format, json_out,
                   grouped>>

\* validate_files: return results
EndValidation ==
    /\ pc = "files"
    /\ Len(results) >= Len(file_paths)
    /\ pc' = "report"
    /\ UNCHANGED aux
    /\ UNCHANGED <<validation_rules, file_paths, fs, results, result, ri,
                   output_format, json_out, grouped>>

\* main: print(format_json_output(results))
FormatJson ==
    /\ pc = "report"
    /\ json_out' = format_json_output(results)
    /\ results' = ArgumentsAfter(results, get_all_rules).results
    /\ output_format' = "json"
    /\ pc' = "done"
    /\ UNCHANGED aux
    /\ UNCHANGED <<validation_rules, file_paths, fs, result, ri, grouped>>

\* main: format_html_output(results, args.path, get_all_rules()), which calls
\* group_issues_by_rule(results, all_rules)
GroupIssues ==
    /\ pc = "report"
    /\ html_summary' = [total_errors |-> HtmlTotal(results, Len(results), "error"),
                        total_warnings |-> HtmlTotal(results, Len(results),
                                                     "warning")]
    /\ grouped' = group_issues_by_rule(results, get_all_rules)
    /\ results' = ArgumentsAfter(results, get_all_rules).results
    /\ validation_rules' = ArgumentsAfter(results, get_all_rules).all_rules
    /\ output_format' = "html"
    /\ pc' = "done"
    /\ UNCHANGED <<now, first_json, call, returned, console_out>>
    /\ UNCHANGED <<file_paths, fs, result, ri, json_out>>

\* main: print(format_console_output(results, args.path))
FormatConsole ==
    /\ pc = "report"
    /\ console_out' = format_console_output(results)
    /\ results' = ArgumentsAfter(results, get_all_rules).results
    /\ output_format' = "terminal"
    /\ pc' = "done"
    /\ UNCHANGED <<now, first_json, call, returned, html_summary>>
    /\ UNCHANGED <<validation_rules, file_paths, fs, result, ri, json_out, grouped>>

Next ==
    \/ Register
    \/ StartValidation
    \/ ReadMissing
    \/ ReadUndecodable
    \/ ReadUnparsable
    \/ ReadParsed
    \/ ApplyRule
    \/ RuleRaises
    \/ FinishFile
    \/ EndValidation
    \/ FormatJson
    \/ GroupIssues
    \/ FormatConsole

Spec == Init /\ [][Next]_vars

\* a second run on the same files with the same registry: main is run again
\* with --format json, later than the first time
Rerun ==
    /\ pc = "done"
    /\ output_format = "json"
    /\ now = 0
    /\ now' = now + 1
    /\ first_json' = json_out
    /\ results' = <<>>
    /\ output_format' = "none"
    /\ pc' = "files"
    /\ UNCHANGED <<validation_rules, file_paths, fs, result, ri, json_out,
                   grouped, call, returned, console_out, html_summary>>

NextTwice == Next \/ Rerun

SpecTwice == Init /\ [][NextTwice]_vars

\* =================================================== functions on their own
\* Text is a sequence of characters, so that lower(), "in", join() and
\* html.escape() are computed and not assumed.
MaxClasses == 2

NoJs        == <<"n", "o", "-", "j", "s">>
Tc          == <<"t", "c">>
En          == <<"e", "n">>
Sc          == <<"s", "c">>

\* pat in text
Contains(text, pat) ==
    \E i \in 0..(Len(text) - Len(pat)) :
        \A k \in 1..Len(pat) : text[i + k] = pat[k]

\* sep.join(parts)
RECURSIVE Join(_, _)
Join(parts, sep) ==
    IF parts = <<>> THEN <<>>
    ELSE IF Len(parts) = 1 THEN parts[1]
    ELSE parts[1] \o sep \o Join(Tail(parts), sep)

\* an attribute value tag.get(name): None or a string
None == [none |-> TRUE, value |-> ""]
Some(v) == [none |-> FALSE, value |-> v]

\* ------------------------------------------------ rules/basic_structure.py
\* The parsed document as validate_basic_structure queries it: whether a
\* top-level declaration mentions html, soup.find('html'), and the class
\* (a list of class names) and lang attributes and the sourceline of that tag.
\* no-js, tc, en, sc and content
ClassNames == {NoJs, Tc, En, Sc, <<"c", "o", "n", "t", "e", "n", "t">>}
ClassLists == UNION { [1..n -> ClassNames] : n \in 0..MaxClasses }
LangValues == {None, Some(""), Some("zh-hant"), Some("en"), Some("zh-hans"),
               Some("fr")}

NoHtmlTag == [found |-> FALSE, class |-> <<>>, lang |-> None, sourceline |-> NoLine]
HtmlTags ==
    {NoHtmlTag} \cup
    { [found |-> TRUE, class |-> c, lang |-> l, sourceline |-> 1] :
        c \in ClassLists, l \in LangValues }

BasicIssue(message, line) == Issue("basic-structure", "error", message, line)

MsgNoDoctype   == <<"Missing DOCTYPE html declaration">>
MsgNoHtml      == <<"Missing <html> tag">>
MsgNoClass     == <<"HTML tag missing class attribute">>
MsgNoNoJs      == <<"HTML class should contain 'no-js'">>
MsgNoLangCode  == <<"HTML class should contain language code (tc/en/sc)">>
MsgNoLang      == <<"HTML tag missing lang attribute">>
MsgInvalidLang(lang_attr) ==
    <<"Invalid lang attribute", lang_attr, "Expected: zh-hant, en, or zh-hans">>

DoctypeIssues(soup) ==
    IF ~soup.doctype_found THEN <<BasicIssue(MsgNoDoctype, NoLine)>> ELSE <<>>

\* html_class = ' '.join(html_tag.get('class', [])) and the checks on it
ClassIssues(html_tag) ==
    LET html_class == Join(html_tag.class, <<" ">>)
        html_line == html_tag.sourceline
        has_lang_code == \E lang \in {Tc, En, Sc} : Contains(html_class, lang)
    IN IF html_class = <<>>
       THEN <<BasicIssue(MsgNoClass, html_line)>>
       ELSE (IF ~Contains(html_class, NoJs)
             THEN <<BasicIssue(MsgNoNoJs, html_line)>> ELSE <<>>)
            \o (IF ~has_lang_code
                THEN <<BasicIssue(MsgNoLangCode, html_line)>> ELSE <<>>)

\* lang_attr = html_tag.get('lang') and the checks on it
LangIssues(html_tag) ==
    LET lang_attr == html_tag.lang
        html_line == html_tag.sourceline
    IN IF lang_attr.none \/ lang_attr.value = ""
       THEN <<BasicIssue(MsgNoLang, html_line)>>
       ELSE IF lang_attr.value \notin {"zh-hant", "en", "zh-hans"}
       THEN <<BasicIssue(MsgInvalidLang(lang_attr.value), html_line)>>
       ELSE <<>>

\* variant: no early return when the html tag is missing; its attributes are
\* then looked up as absent
validate_basic_structure_no_return(soup) ==
    IF ~soup.html.found
    THEN DoctypeIssues(soup) \o <<BasicIssue(MsgNoHtml, NoLine)>>
         \o ClassIssues(soup.html) \o LangIssues(soup.html)
    ELSE DoctypeIssues(soup) \o ClassIssues(soup.html) \o LangIssues(soup.html)

validate_basic_structure(soup) ==
    IF ~soup.html.found
    THEN DoctypeIssues(soup) \o <<BasicIssue(MsgNoHtml, NoLine)>>
    ELSE DoctypeIssues(soup) \o ClassIssues(soup.html) \o LangIssues(soup.html)

BasicStructureCalls ==
    { [fn |-> "validate_basic_structure",
       soup |-> [doctype_found |-> d, html |-> h]] :
        d \in BOOLEAN, h \in HtmlTags }

\* ------------------------------------------- rules/language_consistency.py
Chi  == <<"c", "h", "i">>
Eng  == <<"e", "n", "g">>
Schi == <<"s", "c", "h", "i">>

\* str.lower(), on the letters that occur
LowerChar(c) ==
    CASE c = "C" -> "c" [] c = "H" -> "h" [] c = "I" -> "i"
      [] c = "E" -> "e" [] c = "N" -> "n" [] c = "G" -> "g"
      [] c = "S" -> "s" [] c = "U" -> "u" [] c = "T" -> "t"
      [] c = "F" -> "f" [] c = "D" -> "d" [] OTHER -> c
Lower(text) == [k \in DOMAIN text |-> LowerChar(text[k])]

\* text.replace(old, new) for a single character old
ReplaceChar(text, old, new) ==
    [k \in DOMAIN text |-> IF text[k] = old THEN new ELSE text[k]]

StartsWith(text, pat) ==
    /\ Len(pat) <= Len(text)
    /\ \A k \in 1..Len(pat) : text[k] = pat[k]

\* text.replace(old, new), old not empty
RECURSIVE Replace(_, _, _)
Replace(text, old, new) ==
    IF text = <<>> THEN <<>>
    ELSE IF StartsWith(text, old)
    THEN new \o Replace(SubSeq(text, Len(old) + 1, Len(text)), old, new)
    ELSE <<Head(text)>> \o Replace(Tail(text), old, new)

\* the file paths the rule is tried on: a locale directory in the middle of
\* the path, in upper case, with backslashes, as the first segment of a
\* relative path, as the end of a longer directory name, none, and two of them
FilePaths ==
    { <<"/">> \o Chi \o <<"/", "a">>,
      <<"/", "C", "H", "I", "/", "a">>,
      <<"\\">> \o Chi \o <<"\\", "a">>,
      <<"/">> \o Eng \o <<"/", "a">>,
      <<"/">> \o Schi \o <<"/", "a">>,
      Chi \o <<"/", "a">>,
      <<"/", "x">> \o Chi \o <<"/", "a">>,
      <<"/", "d", "/", "a">>,
      <<"/">> \o Eng \o <<"/">> \o Chi \o <<"/", "a">> }

\* expected_lang_code and expected_lang_attr, or none when the path has no
\* language directory
ExpectedLang(file_path) ==
    LET path_lower == ReplaceChar(Lower(file_path), "\\", "/")
    IN IF Contains(path_lower, <<"/">> \o Chi \o <<"/">>)
       THEN [none |-> FALSE, code |-> Tc, attr |-> "zh-hant"]
       ELSE IF Contains(path_lower, <<"/">> \o Eng \o <<"/">>)
       THEN [none |-> FALSE, code |-> En, attr |-> "en"]
       ELSE IF Contains(path_lower, <<"/">> \o Schi \o <<"/">>)
       THEN [none |-> FALSE, code |-> Sc, attr |-> "zh-hans"]
       ELSE [none |-> TRUE, code |-> <<>>, attr |-> ""]

\* expected_lang_code.replace('tc', 'chi').replace('en', 'eng').replace('sc', 'schi')
DirectoryOf(code) == Replace(Replace(Replace(code, Tc, Chi), En, Eng), Sc, Schi)

\* str(lang_attr) inside the f-string
Str(attr) == IF attr.none THEN "None" ELSE attr.value

LangIssue(message, line) == Issue("language-consistency", "error", message, line)

MsgClassFor(expected) ==
    <<"HTML class should contain", expected.code, DirectoryOf(expected.code)>>
MsgLangFor(expected, lang_attr) ==
    <<"HTML lang attribute should be", expected.attr,
      DirectoryOf(expected.code), "found", Str(lang_attr)>>

\* variant: the lang attribute is only looked at when the class is right
validate_language_consistency_elif(soup, file_path) ==
    LET expected == ExpectedLang(file_path)
        html_tag == soup.html
        html_line == html_tag.sourceline
        html_class == Join(html_tag.class, <<" ">>)
    IN IF expected.none THEN <<>>
       ELSE IF ~html_tag.found THEN <<>>
       ELSE IF ~Contains(html_class, expected.code)
       THEN <<LangIssue(MsgClassFor(expected), html_line)>>
       ELSE IF html_tag.lang # Some(expected.attr)
       THEN <<LangIssue(MsgLangFor(expected, html_tag.lang), html_line)>>
       ELSE <<>>

validate_language_consistency(soup, file_path) ==
    LET expected == ExpectedLang(file_path)
        html_tag == soup.html
        html_line == html_tag.sourceline
        html_class == Join(html_tag.class, <<" ">>)
    IN IF expected.none THEN <<>>
       ELSE IF ~html_tag.found THEN <<>>
       ELSE (IF ~Contains(html_class, expected.code)
             THEN <<LangIssue(MsgClassFor(expected), html_line)>> ELSE <<>>)
            \o (IF html_tag.lang # Some(expected.attr)
                THEN <<LangIssue(MsgLangFor(expected, html_tag.lang), html_line)>>
                ELSE <<>>)

LanguageConsistencyCalls ==
    { [fn |-> "validate_language_consistency",
       soup |-> [doctype_found |-> TRUE, html |-> h],
       file_path |-> f] :
        h \in HtmlTags, f \in FilePaths }

\* ------------------------------------------------------ rules/meta_tags.py
Utf8Lower == <<"u", "t", "f", "-", "8">>
IeEdge == <<"i", "e", "=", "e", "d", "g", "e">>
DeviceWidth == <<"w", "i", "d", "t", "h", "=", "d", "e", "v", "i", "c", "e", "-", "w", "i", "d", "t", "h">>

Whitespace == {" ", "\t", "\n"}

\* str.strip()
RECURSIVE Strip(_)
Strip(text) ==
    IF text = <<>> THEN <<>>
    ELSE IF Head(text) \in Whitespace THEN Strip(Tail(text))
    ELSE IF text[Len(text)] \in Whitespace THEN Strip(SubSeq(text, 1, Len(text) - 1))
    ELSE text

\* what soup.find(...) gives for a meta tag: nothing, or the tag with the
\* attribute value the rule reads ('' when the tag lacks the attribute)
NoTag == [found |-> FALSE, value |-> <<>>, sourceline |-> NoLine]
Tag(value, line) == [found |-> TRUE, value |-> value, sourceline |-> line]

\* soup.find('title'): nothing, or the tag with its .string (None when the
\* tag has no single string child)
NoTitle == [found |-> FALSE, has_string |-> FALSE, string |-> <<>>]
Title(has_string, string) ==
    [found |-> TRUE, has_string |-> has_string, string |-> string]

HeadLine == 2
MetaLine == 3

\* charset "utf-8", "UTF-8" and "UTF8"; content "IE=edge"; content
\* "width=device-width, initial-scale=1"
CharsetTags == {NoTag, Tag(Utf8Lower, MetaLine),
                Tag(<<"U", "T", "F", "-", "8">>, MetaLine),
                Tag(<<"U", "T", "F", "8">>, MetaLine)}
UaTags == {NoTag, Tag(<<"I", "E", "=", "e", "d", "g", "e">>, MetaLine),
           Tag(<<>>, MetaLine)}
ViewportTags ==
    {NoTag,
     Tag(DeviceWidth \o <<",", " ", "i", "n", "i", "t", "i", "a", "l", "-",
                          "s", "c", "a", "l", "e", "=", "1">>, MetaLine),
     Tag(<<>>, MetaLine)}
PresenceTags == {NoTag, Tag(<<>>, MetaLine)}
TitleTags == {NoTitle, Title(FALSE, <<>>), Title(TRUE, <<" ">>),
              Title(TRUE, <<" ", "T">>)}

NoHead == [head |-> NoTag, charset |-> NoTag, ua |-> NoTag, viewport |-> NoTag,
           cache_control |-> NoTag, pragma |-> NoTag, expires |-> NoTag,
           title |-> NoTitle, keywords |-> NoTag, description |-> NoTag,
           summary |-> NoTag]

HeadSoups ==
    {NoHead} \cup
    { [head |-> Tag(<<>>, HeadLine), charset |-> c, ua |-> u, viewport |-> v,
       cache_control |-> cc, pragma |-> p, expires |-> e, title |-> t,
       keywords |-> k, description |-> d, summary |-> sm] :
        c \in CharsetTags, u \in UaTags, v \in ViewportTags,
        cc \in PresenceTags, p \in PresenceTags, e \in PresenceTags,
        t \in TitleTags, k \in PresenceTags, d \in PresenceTags,
        sm \in PresenceTags }

MetaIssue(severity, message, line) ==
    Issue("required-meta-tags", severity, message, line)

MsgNoHead == <<"Missing <head> tag">>
MsgMissingMeta(what) == <<"Missing required meta tag", what>>
MsgCharset(found) == <<"Charset should be 'utf-8', found", found>>
MsgUaContent == <<"x-ua-compatible content should contain 'ie=edge'">>
MsgViewportContent == <<"Viewport content should contain 'width=device-width'">>
MsgMissingCache(what) == <<"Missing cache control meta tag", what>>
MsgTitle == <<"Missing or empty <title> tag">>

CharsetIssues(soup, head_line) ==
    IF ~soup.charset.found
    THEN <<MetaIssue("error", MsgMissingMeta("charset"), head_line)>>
    ELSE IF Lower(soup.charset.value) # Utf8Lower
    THEN <<MetaIssue("error", MsgCharset(soup.charset.value),
                     soup.charset.sourceline)>>
    ELSE <<>>

UaIssues(soup, head_line) ==
    IF ~soup.ua.found
    THEN <<MetaIssue("error", MsgMissingMeta("http-equiv='x-ua-compatible'"),
                     head_line)>>
    ELSE IF ~Contains(Lower(soup.ua.value), IeEdge)
    THEN <<MetaIssue("warning", MsgUaContent, soup.ua.sourceline)>>
    ELSE <<>>

ViewportIssues(soup, head_line) ==
    IF ~soup.viewport.found
    THEN <<MetaIssue("error", MsgMissingMeta("viewport"), head_line)>>
    ELSE IF ~Contains(Lower(soup.viewport.value), DeviceWidth)
    THEN <<MetaIssue("warning", MsgViewportContent, soup.viewport.sourceline)>>
    ELSE <<>>

\* variant: Pragma and Expires are elif branches of the Cache-Control check
CacheIssuesElif(soup, head_line) ==
    IF ~soup.cache_control.found
    THEN <<MetaIssue("error", MsgMissingCache("Cache-Control"), head_line)>>
    ELSE IF ~soup.pragma.found
    THEN <<MetaIssue("error", MsgMissingCache("Pragma"), head_line)>>
    ELSE IF ~soup.expires.found
    THEN <<MetaIssue("error", MsgMissingCache("Expires"), head_line)>>
    ELSE <<>>

\* the Cache-Control, Pragma and Expires checks
CacheIssues(soup, head_line) ==
    (IF ~soup.cache_control.found
     THEN <<MetaIssue("error", MsgMissingCache("Cache-Control"), head_line)>>
     ELSE <<>>)
    \o (IF ~soup.pragma.found
        THEN <<MetaIssue("error", MsgMissingCache("Pragma"), head_line)>>
        ELSE <<>>)
    \o (IF ~soup.expires.found
        THEN <<MetaIssue("error", MsgMissingCache("Expires"), head_line)>>
        ELSE <<>>)

\* the loop over content_meta_tags = ['title', 'keywords', 'description', 'summary']
ContentIssues(soup, head_line) ==
    (IF ~soup.title.found \/ ~soup.title.has_string
        \/ Strip(soup.title.string) = <<>>
     THEN <<MetaIssue("error", MsgTitle, head_line)>> ELSE <<>>)
    \o (IF ~soup.keywords.found
        THEN <<MetaIssue("error", MsgMissingMeta("keywords"), head_line)>>
        ELSE <<>>)
    \o (IF ~soup.description.found
        THEN <<MetaIssue("error", MsgMissingMeta("description"), head_line)>>
        ELSE <<>>)
    \o (IF ~soup.summary.found
        THEN <<MetaIssue("error", MsgMissingMeta("summary"), head_line)>>
        ELSE <<>>)

validate_meta_tags(soup) ==
    IF ~soup.head.found
    THEN <<MetaIssue("error", MsgNoHead, NoLine)>>
    ELSE LET head_line == soup.head.sourceline
         IN CharsetIssues(soup, head_line) \o UaIssues(soup, head_line)
            \o ViewportIssues(soup, head_line) \o CacheIssues(soup, head_line)
            \o ContentIssues(soup, head_line)

MetaTagsCalls == { [fn |-> "validate_meta_tags", soup |-> h] : h \in HeadSoups }

\* ------------------------------- reporters/html_reporter.py: code snippets
MaxLines == 12
MaxLineNum == 18
Context == 5

Max(a, b) == IF a >= b THEN a ELSE b
Min(a, b) == IF a <= b THEN a ELSE b

\* line.rstrip('\n')
RECURSIVE RStripNewline(_)
RStripNewline(text) ==
    IF text # <<>> /\ text[Len(text)] = "\n"
    THEN RStripNewline(SubSeq(text, 1, Len(text) - 1))
    ELSE text

\* what open(file_path) and f.readlines() give: an exception of the kinds
\* the function catches, or the lines with their line ends
Unreadable == [readable |-> FALSE, lines |-> <<>>]
Readable(lines) == [readable |-> TRUE, lines |-> lines]

\* a file of n numbered lines, the last one with or without a line end
NumberedFile(n, final_newline) ==
    Readable([k \in 1..n |->
                IF k < n \/ final_newline THEN <<ToString(k), "\n">>
                ELSE <<ToString(k)>>])

\* variant: the loop starts one line late
extract_code_snippet_late(file, line_num, context) ==
    IF ~file.readable THEN <<>>
    ELSE LET lines == file.lines
             total_lines == Len(lines)
             start_line == Max(1, line_num - context)
             end_line == Min(total_lines, line_num + context)
         IN [j \in 1..Max(0, end_line - start_line) |->
               LET i == start_line + j - 1
               IN <<i + 1, RStripNewline(lines[i + 1])>>]

extract_code_snippet(file, line_num, context) ==
    IF ~file.readable THEN <<>>
    ELSE LET lines == file.lines
             total_lines == Len(lines)
             start_line == Max(1, line_num - context)
             end_line == Min(total_lines, line_num + context)
         IN [j \in 1..Max(0, end_line - (start_line - 1)) |->
               LET i == (start_line - 1) + j - 1
               IN <<i + 1, RStripNewline(lines[i + 1])>>]

SnippetCalls ==
    { [fn |-> "extract_code_snippet", file |-> f, line_num |-> l,
       context |-> Context] :
        f \in {Unreadable} \cup { NumberedFile(n, nl) :
                                    n \in 0..MaxLines, nl \in BOOLEAN },
        l \in 1..MaxLineNum }

\* --------------------------------- reporters/html_reporter.py: the report
\* The report is kept as its parts, in the order they are written: the
\* summary, then one section per rule with its file blocks and issue blocks;
\* every part holds the text that is put between the tags.
Amp  == <<"&", "a", "m", "p", ";">>
Lt   == <<"&", "l", "t", ";">>
Gt   == <<"&", "g", "t", ";">>
Quot == <<"&", "q", "u", "o", "t", ";">>
Apos == <<"&", "#", "x", "2", "7", ";">>

\* variant: the ampersand is left as it is
HtmlEscapeNoAmp(text) ==
    Replace(Replace(Replace(Replace(text,
        <<"<">>, Lt), <<">">>, Gt), <<"\"">>, Quot), <<"'">>, Apos)

\* html.escape(text): & first, then <, >, " and '
HtmlEscape(text) ==
    Replace(Replace(Replace(Replace(Replace(text,
        <<"&">>, Amp), <<"<">>, Lt), <<">">>, Gt), <<"\"">>, Quot), <<"'">>, Apos)

\* the code point order of the characters that occur in rule ids
Ord(c) ==
    CASE c = "&" -> 38 [] c = "<" -> 60 [] c = ">" -> 62
      [] c = "a" -> 97 [] c = "b" -> 98 [] OTHER -> 99

\* a < b for two strings
StrLess(a, b) ==
    \/ Len(a) < Len(b) /\ \A k \in 1..Len(a) : a[k] = b[k]
    \/ \E k \in 1..Min(Len(a), Len(b)) :
          /\ \A j \in 1..(k - 1) : a[j] = b[j]
          /\ Ord(a[k]) < Ord(b[k])

\* variant: the rules are sorted by id alone
SortKeyLessById(g, a, b) == StrLess(a, b)

\* key=lambda x: (x[1]['failed_files'] == 0, x[0]), compared as tuples
SortKeyLess(g, a, b) ==
    LET ka == (g[a].failed_files = 0)
        kb == (g[b].failed_files = 0)
    IN \/ ~ka /\ kb
       \/ ka = kb /\ StrLess(a, b)

\* sorted(grouped.items(), key=...): the rule ids in sorted order
RECURSIVE SortedRules(_, _)
SortedRules(g, ids) ==
    IF ids = {} THEN <<>>
    ELSE LET first == CHOOSE a \in ids :
                         \A b \in ids \ {a} : SortKeyLess(g, a, b)
         IN <<first>> \o SortedRules(g, ids \ {first})

SeverityUpper(severity) ==
    IF severity = "error" THEN "ERROR"
    ELSE IF severity = "warning" THEN "WARNING" ELSE severity

format_code_snippet_html(snippet, error_line, severity) ==
    [k \in DOMAIN snippet |->
        [highlighted |-> snippet[k][1] = error_line,
         line_class |-> IF snippet[k][1] = error_line
                        THEN <<"error-line", severity, "-line">>
                        ELSE <<"code-line">>,
         line_number |-> snippet[k][1],
         line_content |-> HtmlEscape(snippet[k][2])]]

\* variant: an issue whose snippet cannot be extracted is left out
IssueBlocksNeedSnippet(issues, file) ==
    LET Shown(issue) ==
            issue.line = NoLine
            \/ extract_code_snippet(file, issue.line, Context) # <<>>
        shown == SelectSeq(issues, Shown)
    IN [k \in DOMAIN shown |->
          LET issue == shown[k]
              snippet == IF issue.line # NoLine
                         THEN extract_code_snippet(file, issue.line, Context)
                         ELSE <<>>
          IN [severity_class |-> IF issue.severity = "error" THEN "error"
                                 ELSE "warning",
              severity_label |-> SeverityUpper(issue.severity),
              message |-> HtmlEscape(issue.message),
              line |-> issue.line,
              snippet |-> format_code_snippet_html(snippet, issue.line,
                                                   issue.severity)]]

\* "for issue in issues": the issue blocks of one file
IssueBlocks(issues, file) ==
    [k \in DOMAIN issues |->
        LET issue == issues[k]
            snippet == IF issue.line # NoLine
                       THEN extract_code_snippet(file, issue.line, Context)
                       ELSE <<>>
        IN [severity_class |-> IF issue.severity = "error" THEN "error"
                               ELSE "warning",
            severity_label |-> SeverityUpper(issue.severity),
            message |-> HtmlEscape(issue.message),
            line |-> issue.line,
            snippet |-> format_code_snippet_html(snippet, issue.line,
                                                 issue.severity)]]

\* "for failure in data['failures']": the file blocks of one rule
FileBlocks(failures, disk) ==
    [k \in DOMAIN failures |->
        [heading |-> HtmlEscape(failures[k].file_path),
         issues |-> IssueBlocks(failures[k].issues, disk[failures[k].file_path])]]

RuleSection(rule_id, data, disk) ==
    LET is_passed == data.failed_files = 0
    IN [status_class |-> IF is_passed THEN "passed" ELSE "failed",
        rule_title |-> HtmlEscape(rule_id),
        rule_description |-> HtmlEscape(data.description),
        passed |-> data.passed_files,
        total |-> data.total_files,
        has_details |-> ~is_passed,
        files |-> IF is_passed THEN <<>> ELSE FileBlocks(data.failures, disk)]

generate_html_rules(g, disk) ==
    LET sorted_rules == SortedRules(g, DOMAIN g)
    IN [k \in DOMAIN sorted_rules |->
          RuleSection(sorted_rules[k], g[sorted_rules[k]], disk)]

generate_html_summary(timestamp, base_path, total_files, rules_passed, rules_failed, total_errors, total_warnings) ==
    [timestamp |-> HtmlEscape(timestamp),
     path |-> HtmlEscape(base_path),
     total_files |-> total_files,
     rules_passed |-> rules_passed,
     rules_total |-> rules_passed + rules_failed,
     total_errors |-> total_errors,
     total_warnings |-> total_warnings]

format_html_output(rs, base_path, all_rules, disk, timestamp) ==
    LET total_files == Len(rs)
        total_errors == HtmlTotal(rs, Len(rs), "error")
        total_warnings == HtmlTotal(rs, Len(rs), "warning")
        g == group_issues_by_rule(rs, all_rules)
        rules_passed == Cardinality({ id \in DOMAIN g : g[id].failed_files = 0 })
        rules_failed == Cardinality(DOMAIN g) - rules_passed
    IN [summary |-> generate_html_summary(timestamp, base_path, total_files,
                       rules_passed, rules_failed, total_errors, total_warnings),
        rules |-> generate_html_rules(g, disk)]

\* what format_html_output is tried on: rule ids, descriptions, paths,
\* messages and source lines with the characters html.escape replaces
IdA  == <<"a">>
IdAB == <<"a", "b">>
IdB  == <<"b", "&">>
RenderIds == {IdA, IdAB, IdB}
PathA == <<"a", "&", "b">>
PathB == <<"b">>
ScriptMessage == <<"<", "s", "c", "r", "i", "p", "t", ">">>
QuoteMessage == <<"a", "&", "'", "\"">>
SourceLines == << <<"<", "a", ">", "\n">>, <<"x", "&", "y", "\n">>,
                  <<"\"", "q", "'">> >>

RenderRegistries ==
    { r \in UNION { [1..n -> RenderIds] : n \in 0..Cardinality(RenderIds) } :
        \A j, k \in DOMAIN r : j # k => r[j] # r[k] }
RenderRules(r) ==
    [k \in DOMAIN r |-> Rule(r[k], <<"d", "<", ">">>, "rule_func")]

RenderIssues ==
    { Issue(id, severity, message, line) :
        id \in RenderIds, severity \in {"error", "warning"},
        message \in {ScriptMessage, QuoteMessage}, line \in {NoLine, 2} }

\* the result of PathA: passed, error, or failed with one issue; then none
\* or the result of PathB, failed with one issue of the rule IdA
RenderResults ==
    LET first_results ==
            { [path |-> PathA, status |-> "passed", issues |-> <<>>],
              [path |-> PathA, status |-> "error", issues |-> <<>>,
               error |-> <<"File not found", PathA>>] }
            \cup { [path |-> PathA, status |-> "failed", issues |-> <<i>>] :
                     i \in RenderIssues }
        second_result ==
            [path |-> PathB, status |-> "failed",
             issues |-> <<Issue(IdA, "error", QuoteMessage, 1)>>]
    IN { <<r>> : r \in first_results }
       \cup { <<r, second_result>> : r \in first_results }

Disks == [{PathA, PathB} -> {Unreadable, Readable(SourceLines)}]

FormatHtmlCalls ==
    { [fn |-> "format_html_output", results |-> rs, base_path |-> b,
       all_rules |-> RenderRules(r), disk |-> d] :
        rs \in RenderResults, b \in { <<"d", "/", "a">>, <<"<", "&", ">">> },
        r \in RenderRegistries,
        d \in Disks }

\* --------------------------------------------------------- calls on their own
\* the variables of the validation run, when no run is made
NoRun ==
    /\ validation_rules = <<>>
    /\ file_paths = <<>>
    /\ fs = [p \in Paths |-> [kind |-> "missing"]]
    /\ results = <<>>
    /\ result = NoResult
    /\ ri = 0
    /\ pc = "call"
    /\ output_format = "none"
    /\ json_out = NoJson
    /\ grouped = <<>>
    /\ now = 0
    /\ first_json = NoJson
    /\ console_out = NoConsole
    /\ html_summary = [total_errors |-> 0, total_warnings |-> 0]

run == <<validation_rules, file_paths, fs, results, result, ri, pc,
         output_format, json_out, grouped, now, first_json, console_out,
         html_summary>>

Return(fn, value) ==
    /\ pc = "call"
    /\ call.fn = fn
    /\ returned = NoCall
    /\ returned' = [fn |-> fn, value |-> value]
    /\ UNCHANGED <<call, run>>

Returned(fn) == returned.fn = fn

CallBasicStructure ==
    Return("validate_basic_structure", validate_basic_structure(call.soup))

CallMetaTags ==
    Return("validate_meta_tags", validate_meta_tags(call.soup))

CallExtractCodeSnippet ==
    Return("extract_code_snippet",
           extract_code_snippet(call.file, call.line_num, call.context))

CallFormatHtmlOutput ==
    Return("format_html_output",
           format_html_output(call.results, call.base_path, call.all_rules,
                              call.disk, <<ToString(now)>>))

CallLanguageConsistency ==
    Return("validate_language_consistency",
           validate_language_consistency(call.soup, call.file_path))

InitUnits ==
    /\ NoRun
    /\ call \in BasicStructureCalls \cup LanguageConsistencyCalls
                 \cup MetaTagsCalls \cup SnippetCalls \cup FormatHtmlCalls
    /\ returned = NoCall

NextUnits ==
    \/ CallBasicStructure
    \/ CallMetaTags
    \/ CallLanguageConsistency
    \/ CallExtractCodeSnippet
    \/ CallFormatHtmlOutput

SpecUnits == InitUnits /\ [][NextUnits]_vars

\* ==================================================================== claims
\* What the documents and the registry say about a path, independently of
\* the run.
ParsedOK(p) == fs[p].kind = "doc"
OutcomeOf(p, k) == fs[p].out[validation_rules[k].func]
RaisingRules(p) == { k \in DOMAIN validation_rules : OutcomeOf(p, k).raised }
AllRulesReturn(p) == ParsedOK(p) /\ RaisingRules(p) = {}

\* the issue sequences of rules 1..n of the registry, one after the other
RECURSIVE IssuesOfRules(_, _)
IssuesOfRules(p, n) ==
    IF n = 0 THEN <<>> ELSE IssuesOfRules(p, n - 1) \o OutcomeOf(p, n).issues

AllIssues(p) == IssuesOfRules(p, Len(validation_rules))

\* the k-th smallest element of a set of indices
Nth(I, k) == CHOOSE i \in I : Cardinality({ j \in I : j < i }) = k - 1

\* C1: a result of validate_file for a document that was read and parsed and
\* on which every registered rule returns has status "passed" exactly when the
\* concatenated issue list of the rules is empty, "failed" exactly when it
\* holds an issue, and never status "error".
C1_StatusMatchesIssues ==
    \A i \in DOMAIN results :
        AllRulesReturn(results[i].path) =>
            /\ (results[i].status = "passed") <=> (AllIssues(results[i].path) = <<>>)
            /\ (results[i].status = "failed") <=> (AllIssues(results[i].path) # <<>>)
            /\ results[i].status # "error"

C1_Witness ==
    /\ pc = "report"
    /\ Len(validation_rules) = 2
    /\ \E i, j \in DOMAIN results :
          /\ AllRulesReturn(results[i].path) /\ results[i].status = "passed"
          /\ AllRulesReturn(results[j].path) /\ results[j].status = "failed"
          /\ Len(results[j].issues) = 1

\* C2: every result of validate_file with status "error" has an empty issues
\* list and an error detail, also when the exception was raised inside the
\* rules loop after earlier rules contributed issues.
C2_ErrorResultHasNoIssues ==
    \A i \in DOMAIN results :
        results[i].status = "error" =>
            /\ results[i].issues = <<>>
            /\ "error" \in DOMAIN results[i]

\* C3: when a registered rule raises on a parsed document the exception leaves
\* validate_file, so no FileResult for that document is ever in the results.
C3_RuleExceptionPropagates ==
    \A i \in DOMAIN results :
        ~(ParsedOK(results[i].path) /\ RaisingRules(results[i].path) # {})

\* the result one call of validate_file gives for a path, as a function of
\* the file and the registry alone
FirstRaising(p) == Nth(RaisingRules(p), 1)
ResultFor(p) ==
    IF fs[p].kind = "missing"
    THEN [path |-> p, status |-> "error", issues |-> <<>>,
          error |-> <<"File not found", p>>]
    ELSE IF fs[p].kind = "undecodable"
    THEN [path |-> p, status |-> "error", issues |-> <<>>,
          error |-> <<"Encoding error", p>>]
    ELSE IF fs[p].kind = "unparsable"
    THEN [path |-> p, status |-> "error", issues |-> <<>>,
          error |-> <<"Parsing error", p>>]
    ELSE IF RaisingRules(p) # {}
    THEN [path |-> p, status |-> "error",
          issues |-> IssuesOfRules(p, FirstRaising(p) - 1),
          error |-> <<"Parsing error", validation_rules[FirstRaising(p)].func>>]
    ELSE [path |-> p,
          status |-> IF AllIssues(p) = <<>> THEN "passed" ELSE "failed",
          issues |-> AllIssues(p)]

\* C4: validate_files returns one result per input path, result i for path i;
\* a path that cannot be read, decoded or parsed gets status "error" and nothing
\* else changes: every result is what validate_file gives for its own path,
\* whatever the other paths are, and the batch ends only after the last path.
C4_OneResultPerPathInOrder ==
    /\ Len(results) <= Len(file_paths)
    /\ pc \in {"report", "done"} => Len(results) = Len(file_paths)
    /\ \A i \in DOMAIN results :
          /\ results[i].path = file_paths[i]
          /\ ~ParsedOK(file_paths[i]) => results[i].status = "error"
          /\ results[i] = ResultFor(file_paths[i])

C4_Witness ==
    /\ pc = "report"
    /\ Len(results) = 2
    /\ results[1].path # results[2].path
    /\ ~ParsedOK(results[1].path)
    /\ results[2].status = "failed"

\* C5: the issues of a validate_file result are the issue sequences of the
\* registered rules, in registration order, one after the other, each in its
\* own order: nothing dropped, duplicated or reordered.
C5_IssuesAreConcatenation ==
    \A i \in DOMAIN results :
        AllRulesReturn(results[i].path) =>
            results[i].issues = AllIssues(results[i].path)

C5_Witness ==
    /\ Len(validation_rules) = 2
    /\ validation_rules[1].func # validation_rules[2].func
    /\ \E i \in DOMAIN results :
          /\ AllRulesReturn(results[i].path)
          /\ Len(OutcomeOf(results[i].path, 1).issues) = 2
          /\ Len(OutcomeOf(results[i].path, 2).issues) = 1
          /\ Len(results[i].issues) = 3

Aggregated == output_format = "html"

\* C6: every aggregate of group_issues_by_rule has
\* passed_files + failed_files = total_files, total_files is the number of
\* results and neither count is negative.
C6_CountsAddUp ==
    Aggregated =>
        \A rule_id \in DOMAIN grouped :
            /\ grouped[rule_id].passed_files + grouped[rule_id].failed_files
                  = grouped[rule_id].total_files
            /\ grouped[rule_id].total_files = Len(results)
            /\ grouped[rule_id].passed_files >= 0
            /\ grouped[rule_id].failed_files >= 0

C6_Witness ==
    /\ Aggregated
    /\ Len(results) = 2
    /\ results[1].path = results[2].path
    /\ \E rule_id \in DOMAIN grouped :
          /\ Len(grouped[rule_id].failures) = 2
          /\ grouped[rule_id].failed_files = 1
          /\ grouped[rule_id].passed_files = 1

\* the issues of result i that carry rule id rule_id
HasIssueOf(r, rule_id) == \E k \in DOMAIN r.issues : r.issues[k].rule = rule_id
RegisteredIds == { validation_rules[i].rule_id : i \in DOMAIN validation_rules }

\* C7: the mapping of group_issues_by_rule has one aggregate for every
\* registered rule id, also for a rule no file has an issue for (failed_files
\* 0, no failures), and no key that is not a registered rule id.
C7_OneAggregatePerRegisteredRule ==
    Aggregated =>
        /\ DOMAIN grouped = RegisteredIds
        /\ \A rule_id \in RegisteredIds :
              (\A i \in DOMAIN results : ~HasIssueOf(results[i], rule_id)) =>
                  /\ grouped[rule_id].failed_files = 0
                  /\ grouped[rule_id].failures = <<>>

C7_Witness ==
    /\ Aggregated
    /\ \E rule_id \in RegisteredIds :
          \A i \in DOMAIN results : ~HasIssueOf(results[i], rule_id)
    /\ \E i \in DOMAIN results :
          /\ results[i].status = "failed"
          /\ \E k \in DOMAIN results[i].issues :
                results[i].issues[k].rule \notin RegisteredIds

\* the failed results that have an issue of rule_id
FailedWith(rule_id) ==
    { i \in DOMAIN results :
        results[i].status = "failed" /\ HasIssueOf(results[i], rule_id) }

IssuesOf(r, rule_id) ==
    LET Same(issue) == issue.rule = rule_id IN SelectSeq(r.issues, Same)

\* C8: a failed file with several issues of one rule is one failures entry of
\* that rule and counts once in its failed_files; the entry holds the file's
\* issues of that rule, in their order, and no issue of another rule.
C8_OneEntryPerFailedFile ==
    Aggregated =>
        \A rule_id \in DOMAIN grouped :
            LET failures == grouped[rule_id].failures
                I == FailedWith(rule_id)
            IN /\ Len(failures) = Cardinality(I)
               /\ \A k \in DOMAIN failures :
                     failures[k] = [file_path |-> results[Nth(I, k)].path,
                                    issues |-> IssuesOf(results[Nth(I, k)], rule_id)]
               /\ grouped[rule_id].failed_files
                     = Cardinality({ results[i].path : i \in I })

C8_Witness ==
    /\ Aggregated
    /\ \E rule_id \in DOMAIN grouped :
          \E k \in DOMAIN grouped[rule_id].failures :
              /\ Len(grouped[rule_id].failures[k].issues) = 2
              /\ \E i \in DOMAIN results :
                    /\ results[i].path = grouped[rule_id].failures[k].file_path
                    /\ Len(results[i].issues) = 3
              /\ grouped[rule_id].failed_files = 1

\* C9: a result with status "error" adds no entry to any rule's failures and
\* does not count in any rule's failed_files, and it counts in every rule's
\* total_files.
C9_ErrorResultsOnlyInTotal ==
    Aggregated =>
        \A rule_id \in DOMAIN grouped :
            /\ \A k \in DOMAIN grouped[rule_id].failures :
                  \A i \in DOMAIN results :
                      results[i].status = "error" =>
                          grouped[rule_id].failures[k].file_path # results[i].path
            /\ grouped[rule_id].failed_files
                  <= Cardinality({ results[i].path :
                                     i \in { j \in DOMAIN results :
                                               results[j].status = "failed" } })
            /\ grouped[rule_id].total_files = Len(results)

C9_Witness ==
    /\ Aggregated
    /\ \E i \in DOMAIN results :
          /\ results[i].status = "error"
          /\ \E k \in DOMAIN results[i].issues :
                results[i].issues[k].rule \in DOMAIN grouped
    /\ \E i \in DOMAIN results : results[i].status = "failed"
    /\ \A rule_id \in DOMAIN grouped : grouped[rule_id].total_files = 2

\* the results the structured output lists
Listed == { i \in DOMAIN results : results[i].status \in {"failed", "error"} }

\* C10: the files list of the structured output holds the results with status
\* "failed" or "error", in input order, and no passed result; a failed entry
\* has path, status and issues, an error entry has path, status and error.
C10_JsonFilesAreFailedAndError ==
    output_format = "json" =>
        /\ Len(json_out.files) = Cardinality(Listed)
        /\ \A k \in DOMAIN json_out.files :
              LET entry == json_out.files[k]
                  r == results[Nth(Listed, k)]
              IN /\ entry.path = r.path
                 /\ entry.status = r.status
                 /\ entry.status # "passed"
                 /\ r.status = "failed" =>
                       /\ DOMAIN entry = {"path", "status", "issues"}
                       /\ entry.issues = r.issues
                 /\ r.status = "error" =>
                       /\ DOMAIN entry = {"path", "status", "error"}
                       /\ entry.error = r.error

C10_Witness ==
    /\ output_format = "json"
    /\ Len(results) = 2
    /\ results[1].status = "passed"
    /\ results[2].status = "error"
    /\ Len(json_out.files) = 1
    /\ json_out.files[1].path = results[2].path

\* C11: validate_files followed by format_json_output, run a second time on
\* the same files, paths and registry, gives the structured output of the
\* first run.
C11_SecondRunSameJson ==
    (now = 1 /\ output_format = "json") => json_out = first_json

C11_Witness ==
    /\ now = 1
    /\ output_format = "json"
    /\ Len(validation_rules) = 2
    /\ Len(json_out.files) = 2
    /\ json_out.files[1].status = "failed"
    /\ json_out.files[2].status = "error"


\* ---------------------------------------------------------------- C12
\* C12 as stated: for a document without a root html element,
\* validate_basic_structure returns exactly one issue, whatever else is
\* wrong with the document.
C12_ExactlyOneIssue ==
    (Returned("validate_basic_structure") /\ ~call.soup.html.found)
        => Len(returned.value) = 1

\* C12, amended: for a document without a root html element the rule returns
\* the missing-root issue as its last issue and no issue about the class or
\* lang attribute; the only issue that can come before it is the
\* missing-doctype issue, so it returns one issue when the doctype is there
\* and two when it is not.
C12_MissingRootEndsTheRule ==
    (Returned("validate_basic_structure") /\ ~call.soup.html.found)
        => returned.value =
             (IF call.soup.doctype_found THEN <<>>
              ELSE <<Issue("basic-structure", "error", MsgNoDoctype, NoLine)>>)
             \o <<Issue("basic-structure", "error", MsgNoHtml, NoLine)>>

C12_Witness ==
    /\ Returned("validate_basic_structure")
    /\ ~call.soup.html.found
    /\ ~call.soup.doctype_found
    /\ Len(returned.value) = 2
    /\ returned.value[2].message = MsgNoHtml

\* ---------------------------------------------------------------- C13
ClassMessages == {MsgNoClass, MsgNoNoJs, MsgNoLangCode}
LocaleTokens == {Tc, En, Sc}

\* the class attribute has the token no-js and exactly one locale token
ClassAsRequired(html_tag) ==
    /\ NoJs \in Range(html_tag.class)
    /\ Cardinality(Range(html_tag.class) \cap LocaleTokens) = 1

\* C13: for a document with a root element, validate_basic_structure returns
\* a class-related error unless the class attribute has the token no-js and
\* exactly one of the tokens tc, en, sc.
C13_ClassErrorUnlessTokens ==
    (Returned("validate_basic_structure") /\ call.soup.html.found)
        => (ClassAsRequired(call.soup.html)
              <=> ~\E k \in DOMAIN returned.value :
                     returned.value[k].message \in ClassMessages)

\* ---------------------------------------------------------------- C14
IsLangMismatch(issue) == issue.message[1] = "HTML lang attribute should be"
IsClassMismatch(issue) == issue.message[1] = "HTML class should contain"

LangMismatchCase ==
    /\ Returned("validate_language_consistency")
    /\ ~ExpectedLang(call.file_path).none
    /\ call.soup.html.found
    /\ call.soup.html.lang # Some(ExpectedLang(call.file_path).attr)

\* C14: when the path has a recognised locale directory and the root
\* element's lang attribute is not the value expected for it,
\* validate_language_consistency returns exactly one lang-mismatch error and
\* its message ends with the lang value that was found; this holds whether
\* or not the class mismatch is reported too, which is the only other issue.
C14_OneLangMismatchWithFoundValue ==
    LangMismatchCase =>
        LET v == returned.value
            mismatches == { k \in DOMAIN v : IsLangMismatch(v[k]) }
        IN /\ Cardinality(mismatches) = 1
           /\ \A k \in mismatches :
                 /\ v[k].severity = "error"
                 /\ v[k].rule = "language-consistency"
                 /\ v[k].message[Len(v[k].message)] = Str(call.soup.html.lang)
           /\ \A k \in DOMAIN v \ mismatches : IsClassMismatch(v[k])
           /\ Len(v) <= 2

\* under /chi/ with lang="en" and a class without tc: both issues are there
C14_Witness ==
    /\ LangMismatchCase
    /\ ExpectedLang(call.file_path).attr = "zh-hant"
    /\ call.soup.html.lang = Some("en")
    /\ Len(returned.value) = 2
    /\ IsClassMismatch(returned.value[1])
    /\ returned.value[2].message[5] = "en"

\* ---------------------------------------------------------------- C15
Checks == {"charset", "ua", "viewport", "cache_control", "pragma", "expires",
           "title", "keywords", "description", "summary"}

\* the check is violated by the document
Violated(check, soup) ==
    CASE check = "charset" ->
           ~soup.charset.found \/ Lower(soup.charset.value) # Utf8Lower
      [] check = "ua" ->
           ~soup.ua.found \/ ~Contains(Lower(soup.ua.value), IeEdge)
      [] check = "viewport" ->
           ~soup.viewport.found
           \/ ~Contains(Lower(soup.viewport.value), DeviceWidth)
      [] check = "title" ->
           ~soup.title.found \/ ~soup.title.has_string
           \/ \A k \in DOMAIN soup.title.string :
                 soup.title.string[k] \in Whitespace
      [] OTHER -> ~soup[check].found

\* the messages of the issues the check can give
MessagesOf(check, soup) ==
    CASE check = "charset" ->
           {MsgMissingMeta("charset"), MsgCharset(soup.charset.value)}
      [] check = "ua" ->
           {MsgMissingMeta("http-equiv='x-ua-compatible'"), MsgUaContent}
      [] check = "viewport" -> {MsgMissingMeta("viewport"), MsgViewportContent}
      [] check = "cache_control" -> {MsgMissingCache("Cache-Control")}
      [] check = "pragma" -> {MsgMissingCache("Pragma")}
      [] check = "expires" -> {MsgMissingCache("Expires")}
      [] check = "title" -> {MsgTitle}
      [] OTHER -> {MsgMissingMeta(check)}

\* C15: with a head element, validate_meta_tags gives one issue for each of
\* its ten checks that is violated and none for a check that is satisfied,
\* so the number of issues is the number of violated checks; without a head
\* element it returns exactly one error.
C15_OneIssuePerViolatedCheck ==
    Returned("validate_meta_tags") =>
        LET v == returned.value
            soup == call.soup
        IN IF soup.head.found
           THEN /\ \A check \in Checks :
                     Cardinality({ k \in DOMAIN v :
                                     v[k].message \in MessagesOf(check, soup) })
                       = (IF Violated(check, soup) THEN 1 ELSE 0)
                /\ Len(v) = Cardinality({ check \in Checks :
                                            Violated(check, soup) })
           ELSE /\ Len(v) = 1
                /\ v[1].severity = "error"

\* Cache-Control and Pragma are both missing, everything else is right
C15_Witness ==
    /\ Returned("validate_meta_tags")
    /\ call.soup.head.found
    /\ { check \in Checks : Violated(check, call.soup) }
         = {"cache_control", "pragma"}
    /\ Len(returned.value) = 2

\* ---------------------------------------------------------------- C16
\* C16: for a readable file of n lines and a line number L >= 1,
\* extract_code_snippet with a window of 5 returns the lines numbered
\* max(1, L - 5) to min(n, L + 5), in ascending order, each with its own
\* line number and without its line end; beyond the end of the file the
\* result stays inside the file.
C16_WindowClippedToFile ==
    (Returned("extract_code_snippet") /\ call.file.readable) =>
        LET n == Len(call.file.lines)
            lo == Max(1, call.line_num - 5)
            hi == Min(n, call.line_num + 5)
            window == { m \in 1..n : lo <= m /\ m <= hi }
            v == returned.value
        IN /\ Len(v) = Cardinality(window)
           /\ \A j \in DOMAIN v :
                 /\ v[j][1] = lo + j - 1
                 /\ v[j][1] \in window
                 /\ v[j][2] = <<ToString(v[j][1])>>

\* line 3 of a file of 4 lines: lines 1 to 4
C16_Witness ==
    /\ Returned("extract_code_snippet")
    /\ call.file.readable
    /\ Len(call.file.lines) = 4
    /\ call.line_num = 3
    /\ Len(returned.value) = 4
    /\ returned.value[4] = <<4, <<"4">>>>


\* ------------------------------------------------------- C17, C18, C19
\* what a browser shows for an escaped text
Unescape(text) ==
    Replace(Replace(Replace(Replace(Replace(text,
        Apos, <<"'">>), Quot, <<"\"">>), Gt, <<">">>), Lt, <<"<">>), Amp, <<"&">>)

\* the text has no markup character of its own: no < or >, and every & is
\* the start of one of the five character references
Harmless(text) ==
    \A k \in DOMAIN text :
        /\ text[k] \notin {"<", ">"}
        /\ text[k] = "&" =>
             \E e \in {Amp, Lt, Gt, Quot, Apos} :
                 StartsWith(SubSeq(text, k, Len(text)), e)

ReportReturned == Returned("format_html_output")
\* the rules and their failures as the report is given them
ReportGroups == group_issues_by_rule(call.results, call.all_rules)
\* the rule a section is about
SectionRule(section) == Unescape(section.rule_title)

\* the issue blocks of a section stand for the issues of the rule's failures,
\* one for one
BlocksMatchFailures(section) ==
    LET failures == ReportGroups[SectionRule(section)].failures
    IN section.has_details =>
         /\ Len(section.files) = Len(failures)
         /\ \A f \in DOMAIN section.files :
               Len(section.files[f].issues) = Len(failures[f].issues)

\* C17: when the file of an issue cannot be read while the report is
\* written, the report is still produced, the issue is shown with its
\* severity, message and line and an empty snippet; the issues of readable
\* files keep their snippets and every section keeps all its issues.
C17_UnreadableSourceOnlyDropsSnippet ==
    ReportReturned =>
        \A s \in DOMAIN returned.value.rules :
            LET section == returned.value.rules[s]
                failures == ReportGroups[SectionRule(section)].failures
            IN /\ SectionRule(section) \in DOMAIN ReportGroups
               /\ BlocksMatchFailures(section)
               /\ \A f \in DOMAIN section.files :
                  \A b \in DOMAIN section.files[f].issues :
                     LET block == section.files[f].issues[b]
                         issue == failures[f].issues[b]
                         file == call.disk[failures[f].file_path]
                     IN /\ block.severity_label
                             = (IF issue.severity = "error" THEN "ERROR"
                                ELSE "WARNING")
                        /\ Unescape(block.message) = issue.message
                        /\ block.line = issue.line
                        /\ ~file.readable => block.snippet = <<>>
                        /\ (file.readable /\ issue.line \in DOMAIN file.lines)
                             => \E n \in DOMAIN block.snippet :
                                   /\ block.snippet[n].line_number = issue.line
                                   /\ block.snippet[n].highlighted

\* one rule failed in two files: the first cannot be read and its issue is
\* shown with line 2 and no snippet, the second is shown with its snippet
C17_Witness ==
    /\ ReportReturned
    /\ ~call.disk[PathA].readable
    /\ call.disk[PathB].readable
    /\ \E s \in DOMAIN returned.value.rules :
          LET files == returned.value.rules[s].files
          IN /\ Len(files) = 2
             /\ Unescape(files[1].heading) = PathA
             /\ files[1].issues[1].line = 2
             /\ files[1].issues[1].severity_label = "WARNING"
             /\ files[1].issues[1].snippet = <<>>
             /\ Unescape(files[2].heading) = PathB
             /\ files[2].issues[1].snippet # <<>>

\* C18: the report has one section for each registered rule id; the sections
\* of the rules with failed files come before those of the rules without, and
\* in each of the two groups the sections are in ascending order of rule id.
C18_FailedRulesFirstThenById ==
    ReportReturned =>
        LET sections == returned.value.rules
            registered == { call.all_rules[k].rule_id : k \in DOMAIN call.all_rules }
            Failed(k) == ReportGroups[SectionRule(sections[k])].failed_files > 0
        IN /\ Len(sections) = Cardinality(registered)
           /\ \A id \in registered :
                 Cardinality({ k \in DOMAIN sections :
                                 SectionRule(sections[k]) = id }) = 1
           /\ \A j, k \in DOMAIN sections :
                 j < k =>
                    /\ Failed(k) => Failed(j)
                    /\ Failed(j) = Failed(k)
                         => StrLess(SectionRule(sections[j]),
                                    SectionRule(sections[k]))

\* three rules, only the last one by id has a failed file: it comes first
C18_Witness ==
    /\ ReportReturned
    /\ Len(returned.value.rules) = 3
    /\ SectionRule(returned.value.rules[1]) = IdB
    /\ returned.value.rules[1].status_class = "failed"
    /\ SectionRule(returned.value.rules[2]) = IdA
    /\ SectionRule(returned.value.rules[3]) = IdAB
    /\ returned.value.rules[3].status_class = "passed"

\* C19: the base path, the rule ids and descriptions, the file paths, the
\* issue messages and the snippet lines are put into the report escaped: the
\* text in the report has no <, > or & of its own, and what it shows is the
\* given text, character for character.
C19_UserTextIsEscaped ==
    ReportReturned =>
        LET v == returned.value
            Shows(text, given) == Harmless(text) /\ Unescape(text) = given
        IN /\ Shows(v.summary.path, call.base_path)
           /\ \A s \in DOMAIN v.rules :
                 LET section == v.rules[s]
                     id == SectionRule(section)
                     failures == ReportGroups[id].failures
                 IN /\ Harmless(section.rule_title)
                    /\ id \in DOMAIN ReportGroups
                    /\ Shows(section.rule_description, ReportGroups[id].description)
                    /\ BlocksMatchFailures(section)
                    /\ \A f \in DOMAIN section.files :
                          /\ Shows(section.files[f].heading, failures[f].file_path)
                          /\ \A b \in DOMAIN section.files[f].issues :
                                LET block == section.files[f].issues[b]
                                    lines == call.disk[failures[f].file_path].lines
                                IN /\ Shows(block.message,
                                            failures[f].issues[b].message)
                                   /\ \A n \in DOMAIN block.snippet :
                                         Shows(block.snippet[n].line_content,
                                               RStripNewline(
                                                 lines[block.snippet[n].line_number]))

\* a message <script> is shown as text, next to a source line with an &
C19_Witness ==
    /\ ReportReturned
    /\ call.base_path = <<"<", "&", ">">>
    /\ \E s \in DOMAIN returned.value.rules :
          /\ returned.value.rules[s].rule_title = <<"b">> \o Amp
          /\ returned.value.rules[s].has_details
          /\ LET block == returned.value.rules[s].files[1].issues[1]
             IN /\ block.message
                     = Lt \o <<"s", "c", "r", "i", "p", "t">> \o Gt
                /\ Len(block.snippet) = 3
                /\ block.snippet[2].line_content = <<"x">> \o Amp \o <<"y">>

\* ---------------------------------------------------------------- C20
\* C20: the rule ids of the registered rules are pairwise distinct, after
\* any sequence of registrations.
C20_RuleIdsPairwiseDistinct ==
    \A j, k \in DOMAIN validation_rules :
        j # k => validation_rules[j].rule_id # validation_rules[k].rule_id


IssuesOfSeverity(severity) ==
    Cardinality(UNION { { <<i, k>> : k \in { j \in DOMAIN results[i].issues :
                                   results[i].issues[j].severity = severity } } :
                        i \in DOMAIN results })

\* the totals the reporter that ran has reported
ReportedTotals ==
    IF output_format = "json"
    THEN [total_errors |-> json_out.summary.total_errors,
          total_warnings |-> json_out.summary.total_warnings]
    ELSE IF output_format = "html" THEN html_summary
    ELSE [total_errors |-> console_out.total_errors,
          total_warnings |-> console_out.total_warnings]

\* C22: whichever of the three reporters runs on the results of
\* validate_files, the total of errors and the total of warnings it reports
\* are the numbers of issues of that severity over all results, so the three
\* reporters report the same totals.
C22_ReportersAgreeOnTotals ==
    pc = "done" =>
        /\ ReportedTotals.total_errors = IssuesOfSeverity("error")
        /\ ReportedTotals.total_warnings = IssuesOfSeverity("warning")

\* ---------------------------------------------------------------- C23
\* C23: in every aggregate of group_issues_by_rule, failed_files is the
\* number of entries of the rule's failures list.
C23_FailedFilesCountsFailures ==
    (pc = "done" /\ output_format = "html") =>
        \A rule_id \in DOMAIN grouped :
            grouped[rule_id].failed_files = Len(grouped[rule_id].failures)

============================================================================
